---- MODULE Spec2Model ----
(***************************************************************************)
(* Document index lifecycle of DocumentQueryApp (src/app.py): the          *)
(* in-session document registry, its JSON file, the vector index held by   *)
(* a script run and the index persisted under PERSIST_DIR, driven by the   *)
(* upload, remove and remove-all handlers of render_document_management.   *)
(*                                                                         *)
(* Every Streamlit script run constructs DocumentQueryApp (main), which    *)
(* reloads the registry from its file, and then loads the index from       *)
(* storage (run) before a handler acts; each action below therefore starts *)
(* from LoadDocumentRegistry and load_index and ends where the handler     *)
(* body ends (at st.rerun(), at its return, or at the escaping exception). *)
(*                                                                         *)
(* The index library is outside the repository.  A document is one entry   *)
(* of index.docstore.docs carrying its text and its filename metadata;     *)
(* index.insert, VectorStoreIndex.from_documents and                       *)
(* storage_context.persist either take effect completely or raise without  *)
(* effect.                                                                 *)
(***************************************************************************)
EXTENDS Integers, Sequences, FiniteSets, TLC

\* ---- bounds -------------------------------------------------------------
MaxNames == 2
MaxContents == 2
MaxBatch == 2
MaxDocs == 2
\* The questions of a run are numbered 1..MaxQuestions.
MaxQuestions == 52
\* The longest history whose entries are deleted one by one.
MaxShown == 3
\* The questions asked beside the document operations.
MaxAsked == 1

Names == 1..MaxNames

\* Uploaded bytes, with the type the browser declares for them:
\*   1..MaxContents   bytes with non-empty text, text/plain when odd and
\*                    application/pdf when even
\*   EmptyBytes       an empty text/plain file
\*   UnreadablePdf    an application/pdf file PdfReader cannot read
\*   InvalidUtf8      a text/plain file that is not UTF-8
\*   ImageBytes       a file declared image/png
EmptyBytes == 0
UnreadablePdf == -1
InvalidUtf8 == -2
ImageBytes == -3
Contents == {ImageBytes, InvalidUtf8, UnreadablePdf, EmptyBytes} \cup (1..MaxContents)

TextPlain == "text/plain"
ApplicationPdf == "application/pdf"
ImagePng == "image/png"

DeclaredType(content) ==
    IF content = ImageBytes THEN ImagePng
    ELSE IF content = UnreadablePdf THEN ApplicationPdf
    ELSE IF content <= 0 THEN TextPlain
    ELSE IF content % 2 = 1 THEN TextPlain ELSE ApplicationPdf

UploadedFile ==
    {[name |-> n, content |-> c, type |-> DeclaredType(c)] : n \in Names, c \in Contents}

\* ---- injected failures ---------------------------------------------------
\* At most one step of an operation raises.  "insert" with at = k makes the
\* k-th index.insert call of the batch raise; "save_open" is open(..., 'w')
\* raising (file untouched), "save_dump" is json.dump raising after the
\* file was truncated; "rebuild" is VectorStoreIndex.from_documents raising;
\* "persist" is storage_context.persist raising.
NoFault == [step |-> "none", at |-> 0]
SaveFaults == {[step |-> s, at |-> 0] : s \in {"save_open", "save_dump"}}
PersistFault == [step |-> "persist", at |-> 0]
RebuildFault == [step |-> "rebuild", at |-> 0]
InsertFaults == {[step |-> "insert", at |-> k] : k \in 1..MaxBatch}
UploadFaults == {NoFault, PersistFault} \cup SaveFaults \cup InsertFaults
RemoveFaults == {NoFault, PersistFault, RebuildFault} \cup SaveFaults

\* ---- state ---------------------------------------------------------------
VARIABLES
    documents_registry,   \* st.session_state.documents_registry
    registry_file,        \* DOCUMENTS_META_FILE on disk
    index,                \* the index object the current script run holds
    storage,              \* the index persisted under PERSIST_DIR
    uploaded_files,       \* the files held by the st.file_uploader widget
    query_history,        \* st.session_state.query_history, oldest first
    history_file,         \* QUERY_HISTORY_FILE on disk
    op                    \* the last operation: its input and what it reported

vars == <<documents_registry, registry_file, index, storage, uploaded_files,
          query_history, history_file, op>>

EmptyRegistry == [n \in {} |-> [type |-> TextPlain, hash |-> <<"md5", 0>>]]

\* hashlib.md5(file_content).hexdigest(): a digest, distinct for distinct
\* bytes of the model.
GenerateFileHash(file_content) == <<"md5", file_content>>

RegistryHashes(reg) == {reg[n].hash : n \in DOMAIN reg}

RegistryPut(reg, name, rec) ==
    [n \in (DOMAIN reg) \cup {name} |-> IF n = name THEN rec ELSE reg[n]]

\* A delete that leaves the record in place.
RegistryKeep(reg, name) == reg

RegistryDel(reg, name) == [n \in (DOMAIN reg) \ {name} |-> reg[n]]

\* The registry file: absent, unparsable, or a JSON object.
AbsentFile == [state |-> "absent", data |-> EmptyRegistry]
MalformedFile == [state |-> "malformed", data |-> EmptyRegistry]
JsonFile(reg) == [state |-> "ok", data |-> reg]

\* _load_document_registry: an absent file leaves the session value alone,
\* an unparsable one resets it to {}.
LoadDocumentRegistry(file, session) ==
    IF file.state = "absent" THEN session
    ELSE IF file.state = "malformed" THEN EmptyRegistry
    ELSE file.data

\* A save that writes nothing when the registry is empty.
SaveNonEmptyRegistry(file, reg, fault) ==
    IF fault.step = "save_open" \/ DOMAIN reg = {} THEN file
    ELSE IF fault.step = "save_dump" THEN MalformedFile
    ELSE JsonFile(reg)

\* _save_document_registry: the exception is caught inside; the caller
\* continues.
SaveDocumentRegistry(file, reg, fault) ==
    IF fault.step = "save_open" THEN file
    ELSE IF fault.step = "save_dump" THEN MalformedFile
    ELSE JsonFile(reg)

Persist(stored, idx, fault) == IF fault.step = "persist" THEN stored ELSE idx

Document(text, filename) == [text |-> text, filename |-> filename]

Tags(idx) == {idx[i].filename : i \in DOMAIN idx}

\* What the last operation was and what it showed: per uploaded file the
\* branch it took, the filename of a remove and whether the registry held
\* it, the step that raised, and the final message ("success": st.success;
\* "error": st.error of the except clause; "exception": the exception left
\* the script run).  steps lists, in the order the handler reached them, the
\* calls that touch the index, the registry or the disk; file is the position
\* in the batch of the file an upload made the call for, 0 otherwise.
Step(name, file) == [name |-> name, file |-> file]

NoOp ==
    [kind |-> "init", files |-> <<>>, filename |-> 0, found |-> FALSE,
     position |-> 0, fault |-> "none", outcome |-> "none", steps |-> <<>>]

\* Line 269: the uploader's key is the registry's length; the script run
\* after an operation renders a fresh, empty uploader when the key changed.
UploaderKey(reg) == Cardinality(DOMAIN reg)

KeptFiles(files, reg, file2, session2) ==
    IF UploaderKey(LoadDocumentRegistry(file2, session2)) = UploaderKey(reg)
    THEN files ELSE <<>>

\* ---- query history file --------------------------------------------------
AbsentHistory == [state |-> "absent", data |-> <<>>]
MalformedHistory == [state |-> "malformed", data |-> <<>>]
JsonHistory(history) == [state |-> "ok", data |-> history]

\* _load_query_history: the list of the file as it is; an absent file leaves
\* the session value alone, an unparsable one resets it to [].
LoadQueryHistory(file, session) ==
    IF file.state = "absent" THEN session
    ELSE IF file.state = "malformed" THEN <<>>
    ELSE file.data

\* _save_query_history: the exception is caught inside.
SaveQueryHistory(file, history, fault) ==
    IF fault.step = "save_open" THEN file
    ELSE IF fault.step = "save_dump" THEN MalformedHistory
    ELSE JsonHistory(history)

\* Line 27: every script run reloads the history; a document operation
\* leaves the history file alone.
HistoryReloaded ==
    /\ query_history' = LoadQueryHistory(history_file, query_history)
    /\ history_file' = history_file

Init ==
    /\ query_history = <<>>
    /\ history_file = AbsentHistory
    /\ documents_registry = EmptyRegistry
    /\ registry_file = AbsentFile
    /\ index = <<>>
    /\ storage = <<>>
    /\ uploaded_files = <<>>
    /\ op = NoOp

\* ---- upload (render_document_management) --------------------------------
\* A duplicate check that compares filenames instead of hashes.
IsDuplicateByName(reg, file) == file.name \in DOMAIN reg

\* Lines 284-287: the duplicate check against the registry of the session.
IsDuplicate(reg, file) == GenerateFileHash(file.content) \in RegistryHashes(reg)

\* An extraction that decodes the bytes of a file of any other type.
ExtractTextAnyType(file) ==
    IF file.type = ApplicationPdf
    THEN IF file.content = UnreadablePdf THEN "none"
         ELSE IF file.content > 0 THEN "text" ELSE "empty"
    ELSE IF file.content = InvalidUtf8 THEN "raise"
    ELSE IF file.content = EmptyBytes THEN "empty"
    ELSE "text"

\* Lines 303-310: the text of a file, by declared type.  "none" is the None
\* returned by _extract_pdf_text after it reported the error, "raise" the
\* UnicodeDecodeError of file_content.decode, "unsupported" the else branch.
ExtractText(file) ==
    IF file.type = ApplicationPdf
    THEN IF file.content = UnreadablePdf THEN "none"
         ELSE IF file.content > 0 THEN "text" ELSE "empty"
    ELSE IF file.type = TextPlain
    THEN IF file.content = InvalidUtf8 THEN "raise"
         ELSE IF file.content > 0 THEN "text" ELSE "empty"
    ELSE "unsupported"

RegistryRecord(file) ==
    [type |-> file.type, hash |-> GenerateFileHash(file.content)]

\* Which branches show a failure for the file: _extract_pdf_text's
\* st.error (line 94) and the except clause of the loop (line 325).  The
\* `if text:` test of line 312 has no else: an empty text shows nothing.
ReportedFailed(status) == status \in {"pdf_error", "decode_error", "insert_error"}

\* An iteration that puts the record in the registry before it calls
\* index.insert.
ProcessFilePutFirst(st, file, fault) ==
    LET text == ExtractText(file)
        i == Len(st.files) + 1
    IN  IF text = "unsupported"
        THEN [st EXCEPT !.files = Append(@, "unsupported")]
        ELSE IF text = "none"
        THEN [st EXCEPT !.files = Append(@, "pdf_error")]
        ELSE IF text = "raise"
        THEN [st EXCEPT !.files = Append(@, "decode_error")]
        ELSE IF text = "empty"
        THEN [st EXCEPT !.files = Append(@, "empty")]
        ELSE IF fault.step = "insert" /\ fault.at = st.inserts + 1
        THEN [st EXCEPT
                !.registry = RegistryPut(@, file.name, RegistryRecord(file)),
                !.files = Append(@, "insert_error"),
                !.inserts = @ + 1,
                !.steps = @ \o <<Step("put", i), Step("insert_raised", i)>>]
        ELSE [st EXCEPT
                !.index = Append(@, Document(file.content, file.name)),
                !.registry = RegistryPut(@, file.name, RegistryRecord(file)),
                !.files = Append(@, "accepted"),
                !.inserts = @ + 1,
                !.steps = @ \o <<Step("put", i), Step("insert", i)>>]

\* Lines 301-325, one iteration of the loop over new_files_to_process.
\* st.inserts counts the index.insert calls of the batch.
ProcessFile(st, file, fault) ==
    LET text == ExtractText(file)
        i == Len(st.files) + 1
    IN  IF text = "unsupported"
        THEN [st EXCEPT !.files = Append(@, "unsupported")]
        ELSE IF text = "none"
        THEN [st EXCEPT !.files = Append(@, "pdf_error")]
        ELSE IF text = "raise"
        THEN [st EXCEPT !.files = Append(@, "decode_error")]
        ELSE IF text = "empty"
        THEN [st EXCEPT !.files = Append(@, "empty")]
        ELSE IF fault.step = "insert" /\ fault.at = st.inserts + 1
        THEN [st EXCEPT
                !.files = Append(@, "insert_error"),
                !.inserts = @ + 1,
                !.steps = Append(@, Step("insert_raised", i))]
        ELSE [st EXCEPT
                !.index = Append(@, Document(file.content, file.name)),
                !.registry = RegistryPut(@, file.name, RegistryRecord(file)),
                !.files = Append(@, "accepted"),
                !.inserts = @ + 1,
                !.steps = @ \o <<Step("insert", i), Step("put", i)>>]

\* Lines 278-325.  The duplicate check of every file (first loop) runs before
\* any file is processed (second loop), so every check sees reg0, the
\* registry the handler started with.  st.files[i] is the branch file i took
\* ("duplicate": listed in duplicate_files).
RECURSIVE ProcessBatch(_, _, _, _, _)
ProcessBatch(st, reg0, batch, i, fault) ==
    IF i > Len(batch) THEN st
    ELSE ProcessBatch(
            IF IsDuplicate(reg0, batch[i])
            THEN [st EXCEPT !.files = Append(@, "duplicate")]
            ELSE ProcessFile(st, batch[i], fault),
            reg0, batch, i + 1, fault)

UploadResult(reg, idx, batch, fault) ==
    ProcessBatch([index |-> idx, registry |-> reg, files |-> <<>>,
                  inserts |-> 0, steps |-> <<>>],
                 reg, batch, 1, fault)

\* "Upload Document" pressed with a non-empty selection (line 272).  The
\* persist of line 329 is outside every try: when it raises, the script run
\* ends with the exception and neither st.success nor st.rerun is reached.
\* MaxDocs caps the growth of the index; a failure is injected at an
\* index.insert call only when the batch reaches that call.
Upload(fault) ==
    \E reg \in {LoadDocumentRegistry(registry_file, documents_registry)} :
    \E res \in {UploadResult(reg, storage, uploaded_files, fault)} :
    \E file2 \in {SaveDocumentRegistry(registry_file, res.registry, fault)} :
        /\ uploaded_files # <<>>
        /\ Len(res.index) <= MaxDocs
        /\ fault.step = "insert" => fault.at <= res.inserts
        /\ documents_registry' = res.registry
        /\ registry_file' = file2
        /\ index' = res.index
        /\ storage' = Persist(storage, res.index, fault)
        /\ uploaded_files' = KeptFiles(uploaded_files, reg, file2, res.registry)
        /\ HistoryReloaded
        /\ op' = [kind |-> "upload", files |-> res.files, filename |-> 0,
                  found |-> FALSE, position |-> 0, fault |-> fault.step,
                  outcome |-> IF fault.step = "persist" THEN "exception"
                              ELSE "success",
                  steps |-> res.steps \o <<Step("save", 0), Step("persist", 0)>>]

\* ---- remove_document ------------------------------------------------------
\* A filter that keeps the documents of the filename.
DocsOf(idx, filename) == SelectSeq(idx, LAMBDA d : d.filename = filename)

\* Lines 227-231: the documents of the index whose filename differs.
DocsWithout(idx, filename) == SelectSeq(idx, LAMBDA d : d.filename # filename)

\* The calls of remove_document (lines 221-235) and remove_all_documents
\* (lines 246-254) up to the one that raised: the registry change and its
\* save, then the rebuild of the index and its persist.
RemovalSteps(change, fault) ==
    change \o (IF fault.step = "rebuild" THEN <<Step("rebuild", 0)>>
               ELSE <<Step("rebuild", 0), Step("persist", 0)>>)

RemoveDocument(filename, fault) ==
    \E reg \in {LoadDocumentRegistry(registry_file, documents_registry)} :
    \E found \in {filename \in DOMAIN reg} :
    \E reg2 \in {IF found THEN RegistryDel(reg, filename) ELSE reg} :
    \E file2 \in {IF found THEN SaveDocumentRegistry(registry_file, reg2, fault)
                  ELSE registry_file} :
    \E new_index \in {IF fault.step \in {"rebuild", "persist"} THEN storage
                      ELSE DocsWithout(storage, filename)} :
        /\ documents_registry' = reg2
        /\ registry_file' = file2
        /\ index' = new_index
        /\ storage' = new_index
        /\ uploaded_files' = KeptFiles(uploaded_files, reg, file2, reg2)
        /\ HistoryReloaded
        /\ op' = [kind |-> "remove", files |-> <<>>, filename |-> filename,
                  found |-> found, position |-> 0, fault |-> fault.step,
                  outcome |-> IF fault.step \in {"rebuild", "persist"}
                              THEN "error" ELSE "success",
                  steps |-> RemovalSteps(
                      IF found THEN <<Step("delete", 0), Step("save", 0)>>
                      ELSE <<>>, fault)]

\* "Remove Selected Document": the selectbox offers the registry's keys
\* (lines 355-362).
RemoveSelected ==
    \E filename \in DOMAIN LoadDocumentRegistry(registry_file, documents_registry),
       fault \in RemoveFaults :
        RemoveDocument(filename, fault)

\* remove_document called for a filename that is not in the registry.
RemoveAbsent ==
    \E filename \in Names \ DOMAIN LoadDocumentRegistry(registry_file, documents_registry),
       fault \in RemoveFaults \ SaveFaults :
        RemoveDocument(filename, fault)

\* ---- remove_all_documents -------------------------------------------------
\* "Remove All Documents" is rendered only while the registry is non-empty
\* (lines 337, 364-367).
RemoveAllDocuments(fault) ==
    \E reg \in {LoadDocumentRegistry(registry_file, documents_registry)} :
    \E file2 \in {SaveDocumentRegistry(registry_file, EmptyRegistry, fault)} :
    \E new_index \in {IF fault.step \in {"rebuild", "persist"} THEN storage
                      ELSE <<>>} :
        /\ DOMAIN reg # {}
        /\ documents_registry' = EmptyRegistry
        /\ registry_file' = file2
        /\ index' = new_index
        /\ storage' = new_index
        /\ uploaded_files' = KeptFiles(uploaded_files, reg, file2, EmptyRegistry)
        /\ HistoryReloaded
        /\ op' = [kind |-> "remove_all", files |-> <<>>, filename |-> 0,
                  found |-> FALSE, position |-> 0, fault |-> fault.step,
                  outcome |-> IF fault.step \in {"rebuild", "persist"}
                              THEN "error" ELSE "success",
                  steps |-> RemovalSteps(
                      <<Step("clear", 0), Step("save", 0)>>, fault)]

\* ---- script runs without a document operation ----------------------------
\* Every script run: __init__ reloads the registry (line 26) and the
\* history (line 27), run loads the index (line 381).
ScriptRun ==
    /\ documents_registry' = LoadDocumentRegistry(registry_file, documents_registry)
    /\ index' = storage
    /\ HistoryReloaded
    /\ op' = [NoOp EXCEPT !.kind = "run"]
    /\ UNCHANGED <<registry_file, storage>>

\* The user adds a file to the uploader (lines 265-270).
SelectFile ==
    \E file \in UploadedFile :
        /\ Len(uploaded_files) < MaxBatch
        /\ uploaded_files' = Append(uploaded_files, file)
        /\ ScriptRun

\* The user empties the uploader.
ClearFiles ==
    /\ uploaded_files # <<>>
    /\ uploaded_files' = <<>>
    /\ ScriptRun

\* st.rerun(), or an interaction outside the document operations.
Run ==
    /\ ScriptRun
    /\ UNCHANGED uploaded_files

\* A new browser session: session_state and the widgets start empty
\* (_initialize_session_state), then the loads of a script run.
NewSession ==
    /\ documents_registry' = LoadDocumentRegistry(registry_file, EmptyRegistry)
    /\ index' = storage
    /\ uploaded_files' = <<>>
    /\ query_history' = LoadQueryHistory(history_file, <<>>)
    /\ op' = [NoOp EXCEPT !.kind = "session"]
    /\ UNCHANGED <<registry_file, storage, history_file>>

UploadDocuments == \E fault \in UploadFaults : Upload(fault)

RemoveAll == \E fault \in RemoveFaults : RemoveAllDocuments(fault)

Next ==
    \/ SelectFile
    \/ ClearFiles
    \/ UploadDocuments
    \/ RemoveSelected
    \/ RemoveAll
    \/ Run
    \/ NewSession

Spec == Init /\ [][Next]_vars

\* remove_document is also callable with a filename the registry lacks (the
\* `if` of line 222 provides for it), which the selectbox never offers.
NextApi == Next \/ RemoveAbsent

SpecApi == Init /\ [][NextApi]_vars

\* Uploads only, none failing, every file with text and with content that
\* no earlier upload and no other file of the batch carries.
FreshBatch(batch) ==
    /\ \A i \in DOMAIN batch :
          /\ ExtractText(batch[i]) = "text"
          /\ \A k \in DOMAIN storage : storage[k].text # batch[i].content
    /\ \A i, j \in DOMAIN batch : i # j => batch[i].content # batch[j].content

UploadDistinct == FreshBatch(uploaded_files) /\ Upload(NoFault)

NextDistinct == SelectFile \/ ClearFiles \/ UploadDistinct

SpecDistinct == Init /\ [][NextDistinct]_vars

Operations == {"upload", "remove", "remove_all"}

\* ---- render_question_section ---------------------------------------------
\* Line 200: the history keeps its last 50 entries.
HistoryLimit == 50

\* A limit that keeps the first entries instead of the last.
LimitHistoryOldest(history) ==
    IF Len(history) > HistoryLimit THEN SubSeq(history, 1, HistoryLimit)
    ELSE history

\* Lines 200-201: query_history[-50:] when the list is longer than 50.
LimitHistory(history) ==
    IF Len(history) > HistoryLimit
    THEN SubSeq(history, Len(history) - HistoryLimit + 1, Len(history))
    ELSE history

\* Lines 191-195: the entry of a question; the timestamp is left out.
QueryEntry(prompt) == [question |-> prompt, response |-> <<"response", prompt>>]

\* Questions are numbered so that a new one differs from every entry held.
NextQuestion(history) ==
    IF history = <<>> THEN 1 ELSE history[Len(history)].question + 1

\* "query": query_engine.query raises (line 188), and the exception leaves
\* the script run.
QueryFault == [step |-> "query", at |-> 0]
AskFaults == {NoFault, QueryFault} \cup SaveFaults
HistoryFaults == {NoFault} \cup SaveFaults

\* A question section that queries whatever the registry holds.
QuestionSectionUnchecked(reg, history, prompt, fault) ==
    IF fault.step = "query"
    THEN [history |-> history, outcome |-> "exception",
          steps |-> <<Step("query", 0)>>]
    ELSE [history |-> LimitHistory(Append(history, QueryEntry(prompt))),
          outcome |-> "answered",
          steps |-> <<Step("query", 0), Step("append", 0), Step("save", 0)>>]

\* Lines 180-204: the warning and the return while the registry is empty,
\* else the query, the appended entry, the limit and the save.
QuestionSection(reg, history, prompt, fault) ==
    IF DOMAIN reg = {}
    THEN [history |-> history, outcome |-> "no_documents", steps |-> <<>>]
    ELSE IF fault.step = "query"
    THEN [history |-> history, outcome |-> "exception",
          steps |-> <<Step("query", 0)>>]
    ELSE [history |-> LimitHistory(Append(history, QueryEntry(prompt))),
          outcome |-> "answered",
          steps |-> <<Step("query", 0), Step("append", 0), Step("save", 0)>>]

\* The script run that renders the question section, with the question
\* typed into st.chat_input when the section offers it.  No more than
\* `limit` questions are numbered.
AskQuestion(limit, fault) ==
    \E reg \in {LoadDocumentRegistry(registry_file, documents_registry)} :
    \E history \in {LoadQueryHistory(history_file, query_history)} :
    \E res \in {QuestionSection(reg, history, NextQuestion(history), fault)} :
        /\ res.outcome = "no_documents" => fault = NoFault
        /\ res.outcome = "answered" => NextQuestion(history) <= limit
        /\ documents_registry' = reg
        /\ index' = storage
        /\ query_history' = res.history
        /\ history_file' = IF res.outcome = "answered"
                           THEN SaveQueryHistory(history_file, res.history, fault)
                           ELSE history_file
        /\ op' = [NoOp EXCEPT !.kind = "ask", !.fault = fault.step,
                              !.outcome = res.outcome, !.steps = res.steps]
        /\ UNCHANGED <<registry_file, storage, uploaded_files>>

\* ---- render_history_section ----------------------------------------------
\* An index that counts from the oldest entry.
HistoryIndexFromOldest(n, idx) == idx

\* Line 163: del query_history[len - idx], as a position counted from 1.
HistoryIndex(n, idx) == n - idx + 1

DeleteAt(history, pos) ==
    SubSeq(history, 1, pos - 1) \o SubSeq(history, pos + 1, Len(history))

\* Lines 148-165: the delete button of the entry shown at position idx of
\* the list, newest first.
DeleteHistoryEntry(idx, fault) ==
    \E history \in {LoadQueryHistory(history_file, query_history)} :
    \E kept \in {DeleteAt(history, HistoryIndex(Len(history), idx))} :
        /\ idx \in 1..Len(history)
        /\ query_history' = kept
        /\ history_file' = SaveQueryHistory(history_file, kept, fault)
        /\ documents_registry' = LoadDocumentRegistry(registry_file, documents_registry)
        /\ index' = storage
        /\ op' = [NoOp EXCEPT !.kind = "delete_history", !.position = idx,
                              !.fault = fault.step, !.outcome = "rerun",
                              !.steps = <<Step("delete_entry", 0), Step("save", 0)>>]
        /\ UNCHANGED <<registry_file, storage, uploaded_files>>

\* Lines 168-172: "Clear All History", rendered while the history is not
\* empty.
ClearAllHistory(fault) ==
    /\ LoadQueryHistory(history_file, query_history) # <<>>
    /\ query_history' = <<>>
    /\ history_file' = SaveQueryHistory(history_file, <<>>, fault)
    /\ documents_registry' = LoadDocumentRegistry(registry_file, documents_registry)
    /\ index' = storage
    /\ op' = [NoOp EXCEPT !.kind = "clear_history", !.fault = fault.step,
                          !.outcome = "success",
                          !.steps = <<Step("clear_history", 0), Step("save", 0)>>]
    /\ UNCHANGED <<registry_file, storage, uploaded_files>>

ClearHistory == \E fault \in HistoryFaults : ClearAllHistory(fault)

\* The document operations with questions asked in between.
AskBeside == \E fault \in {NoFault, QueryFault} : AskQuestion(MaxAsked, fault)

NextQuery == Next \/ AskBeside

SpecQuery == Init /\ [][NextQuery]_vars

\* One file is uploaded to an empty index; then questions are asked and the
\* history is edited.
SelectFirstFile == storage = <<>> /\ uploaded_files = <<>> /\ SelectFile

UploadFirstFile == storage = <<>> /\ Upload(NoFault)

Ask == \E fault \in AskFaults : AskQuestion(MaxQuestions, fault)

\* The delete buttons of the newest and of the oldest entry.
DeleteHistoryEnd ==
    \E idx \in {1, Len(LoadQueryHistory(history_file, query_history))}
                    \cap DOMAIN LoadQueryHistory(history_file, query_history),
       fault \in HistoryFaults :
        DeleteHistoryEntry(idx, fault)

NextHistory ==
    \/ SelectFirstFile
    \/ UploadFirstFile
    \/ Ask
    \/ DeleteHistoryEnd
    \/ ClearHistory
    \/ Run
    \/ NewSession

SpecHistory == Init /\ [][NextHistory]_vars

\* The same with a short history, every entry of which can be deleted.
AskShort ==
    /\ Len(LoadQueryHistory(history_file, query_history)) < MaxShown
    /\ \E fault \in AskFaults : AskQuestion(MaxShown + 1, fault)

DeleteHistory ==
    \E idx \in DOMAIN LoadQueryHistory(history_file, query_history),
       fault \in HistoryFaults :
        DeleteHistoryEntry(idx, fault)

NextHistoryEdit ==
    \/ SelectFirstFile
    \/ UploadFirstFile
    \/ AskShort
    \/ DeleteHistory
    \/ ClearHistory
    \/ Run
    \/ NewSession

SpecHistoryEdit == Init /\ [][NextHistoryEdit]_vars

\* ---- properties -----------------------------------------------------------

\* C1: after every Insert, Remove or RemoveAll that ran to its success
\* message with no step failing, the filenames of the registry are exactly
\* the filename tags of the index.
RegistryMatchesIndex ==
    (op.kind \in Operations /\ op.fault = "none" /\ op.outcome = "success")
        => DOMAIN documents_registry = Tags(index)

\* C2: the registry file and the persisted index never disagree: the
\* filenames of the registry on disk are the tags of the index on disk.
PersistedRegistryMatchesIndex ==
    DOMAIN LoadDocumentRegistry(registry_file, EmptyRegistry) = Tags(storage)

\* C3: an uploaded file whose hash is the hash of a record of the registry
\* is rejected as a duplicate whatever its name, and changes nothing: what an
\* upload adds to the index or puts in the registry never carries a hash the
\* registry already held, and an upload of duplicates alone leaves the
\* registry, the index and the persisted index as they were.
DuplicateRejected ==
    [][op'.kind = "upload" =>
        LET reg == LoadDocumentRegistry(registry_file, documents_registry)
            hashes == RegistryHashes(reg)
        IN  /\ Len(op'.files) = Len(uploaded_files)
            /\ \A i \in DOMAIN uploaded_files :
                  GenerateFileHash(uploaded_files[i].content) \in hashes
                      => op'.files[i] = "duplicate"
            /\ Len(index') >= Len(storage)
            /\ SubSeq(index', 1, Len(storage)) = storage
            /\ \A k \in (Len(storage) + 1)..Len(index') :
                  GenerateFileHash(index'[k].text) \notin hashes
            /\ \A n \in DOMAIN reg : n \in DOMAIN documents_registry'
            /\ \A n \in DOMAIN documents_registry' :
                  \/ n \in DOMAIN reg /\ documents_registry'[n] = reg[n]
                  \/ documents_registry'[n].hash \notin hashes
            /\ (\A i \in DOMAIN uploaded_files :
                    GenerateFileHash(uploaded_files[i].content) \in hashes)
                  => /\ documents_registry' = reg
                     /\ index' = storage
                     /\ storage' = storage
    ]_vars

DuplicateRejectedWitness ==
    /\ op.kind = "upload"
    /\ \E i \in DOMAIN op.files : op.files[i] = "duplicate"
    /\ \E i \in DOMAIN op.files : op.files[i] = "accepted"

\* C4: a batch inserts at most one document per content hash: the documents
\* an upload appends to the index have pairwise distinct hashes.
OneDocumentPerHash ==
    [][op'.kind = "upload" =>
        \A j, k \in (Len(storage) + 1)..Len(index') :
            j # k => GenerateFileHash(index'[j].text) # GenerateFileHash(index'[k].text)
    ]_vars

\* C5: after uploads of pairwise distinct content, under any filenames, the
\* registry has as many entries as the index has documents.
RegistrySizeIsDocumentCount ==
    op.kind = "upload" => Cardinality(DOMAIN documents_registry) = Len(index)

\* C6: an operation whose registry save or index persist failed does not
\* end with the success message.
NoSuccessAfterFailedStep ==
    (op.kind \in Operations /\ op.fault \in {"save_open", "save_dump", "persist"})
        => op.outcome # "success"

\* C7: a Remove or RemoveAll that ended with its error message leaves the
\* registry file and the persisted index as they were before it.
FailedRemoveKeepsDurableState ==
    [][(op'.kind \in {"remove", "remove_all"} /\ op'.outcome = "error")
        => (registry_file' = registry_file /\ storage' = storage)]_vars

\* C8: Remove of a filename the registry does not hold reports not-found,
\* never success.
AbsentRemoveReportsNotFound ==
    (op.kind = "remove" /\ ~op.found) => op.outcome # "success"

\* C9: every file of a batch whose text extraction failed or yielded empty
\* text is reported as failed.
UnextractableReported ==
    op.kind = "upload" =>
        \A i \in DOMAIN op.files :
            op.files[i] \in {"pdf_error", "decode_error", "empty"}
                => ReportedFailed(op.files[i])

\* C10: after a RemoveAll whose steps all succeeded, the index in memory
\* and the persisted index hold no document, the registry is empty, and the
\* registry a script run or a new session loads from the file is empty.
RemoveAllEmptiesEverything ==
    (op.kind = "remove_all" /\ op.fault = "none")
        => /\ op.outcome = "success"
           /\ index = <<>>
           /\ storage = <<>>
           /\ documents_registry = EmptyRegistry
           /\ registry_file.state = "ok"
           /\ LoadDocumentRegistry(registry_file, EmptyRegistry) = EmptyRegistry
           /\ LoadDocumentRegistry(registry_file, documents_registry) = EmptyRegistry

RemoveAllEmptiesEverythingWitness ==
    /\ op.kind = "remove_all"
    /\ op.fault = "none"
    /\ op.outcome = "success"

\* C12: a record of the registry is changed only by its deletion: no upload
\* alters the record of a filename the registry already holds, a re-upload
\* of the filename with other content included.
RecordNeverOverwritten ==
    [][op'.kind = "upload" =>
        LET reg == LoadDocumentRegistry(registry_file, documents_registry)
        IN  \A n \in DOMAIN reg :
                /\ n \in DOMAIN documents_registry'
                /\ documents_registry'[n] = reg[n]
    ]_vars

\* C13: an upload rejects as duplicate a file whose hash the registry holds
\* and then changes nothing; a Remove with no step failing leaves no record
\* and no document of the filename, and empties a registry of one entry, so
\* that its hash is no longer held; and an upload accepts every file with
\* text whose hash the registry does not hold, under any filename.
ReuploadAfterRemove ==
    [][LET reg == LoadDocumentRegistry(registry_file, documents_registry)
           hashes == RegistryHashes(reg)
       IN  /\ (op'.kind = "upload" /\ op'.fault # "insert") =>
                \A i \in DOMAIN uploaded_files :
                    LET file == uploaded_files[i]
                        held == GenerateFileHash(file.content) \in hashes
                    IN  /\ held => op'.files[i] = "duplicate"
                        /\ (held /\ Len(uploaded_files) = 1)
                              => /\ documents_registry' = reg
                                 /\ index' = storage
                        /\ (~held /\ ExtractText(file) = "text")
                              => /\ op'.files[i] = "accepted"
                                 /\ file.name \in DOMAIN documents_registry'
                                 /\ \E k \in DOMAIN index' :
                                       index'[k] = Document(file.content, file.name)
           /\ (op'.kind = "remove" /\ op'.found /\ op'.fault = "none") =>
                /\ op'.filename \in DOMAIN reg
                /\ op'.filename \notin DOMAIN documents_registry'
                /\ op'.filename \notin Tags(index')
                /\ op'.filename \notin Tags(storage')
                /\ Cardinality(DOMAIN reg) = 1 =>
                      /\ documents_registry' = EmptyRegistry
                      /\ LoadDocumentRegistry(registry_file', documents_registry')
                            = EmptyRegistry
                      /\ reg[op'.filename].hash \notin RegistryHashes(documents_registry')
    ]_vars

ReuploadAfterRemoveWitness ==
    /\ op.kind = "remove"
    /\ op.found
    /\ op.fault = "none"
    /\ documents_registry = EmptyRegistry
    /\ storage = <<>>
    /\ registry_file = JsonFile(EmptyRegistry)

\* The files of a batch whose declared type is plain text or PDF.
SupportedFiles(batch) ==
    SelectSeq(batch, LAMBDA f : f.type \in {TextPlain, ApplicationPdf})

\* C15: a file of a batch whose declared type is neither plain text nor PDF
\* is rejected, that file only: it adds no document and no record, and the
\* registry, the index and the branch of every other file are what the batch
\* without it gives.
UnsupportedTypeSkipped ==
    [][op'.kind = "upload" =>
        LET reg == LoadDocumentRegistry(registry_file, documents_registry)
            fault == IF op'.fault = "insert"
                     THEN CHOOSE f \in InsertFaults :
                            /\ f.at <= Len(uploaded_files)
                            /\ UploadResult(reg, storage, uploaded_files, f).files
                                  = op'.files
                     ELSE [step |-> op'.fault, at |-> 0]
            rest == UploadResult(reg, storage, SupportedFiles(uploaded_files), fault)
            unsupported == {i \in DOMAIN uploaded_files :
                              uploaded_files[i].type \notin {TextPlain, ApplicationPdf}}
        IN  /\ \A i \in unsupported :
                  /\ op'.files[i] \in {"unsupported", "duplicate"}
                  /\ \A k \in (Len(storage) + 1)..Len(index') :
                        index'[k].text # uploaded_files[i].content
                  /\ \A n \in DOMAIN documents_registry' :
                        documents_registry'[n].hash
                            # GenerateFileHash(uploaded_files[i].content)
            /\ documents_registry' = rest.registry
            /\ index' = rest.index
            /\ SelectSeq(op'.files, LAMBDA b : b # "unsupported") = rest.files
    ]_vars

UnsupportedTypeSkippedWitness ==
    /\ op.kind = "upload"
    /\ op.files = <<"unsupported", "accepted">>
    /\ Len(index) = 2

\* C16: the registry a script run or a new session loads is empty when the
\* registry file is absent, and empty when the file is unparsable, whatever
\* registry the session held before the load.
LoadedRegistryEmptyWithoutStore ==
    (op.kind \in {"run", "session"} /\ registry_file.state \in {"absent", "malformed"})
        => documents_registry = EmptyRegistry

\* How many times a document occurs in an index.
Occurrences(idx, doc) == Cardinality({k \in DOMAIN idx : idx[k] = doc})

\* C17: a Remove of f that ended with its success message leaves an index
\* holding exactly the documents of the previous index whose filename tag
\* is not f: none tagged f, every other one as often as before and
\* unchanged, and that index is the persisted one.
RemoveKeepsOtherDocuments ==
    [][(op'.kind = "remove" /\ op'.outcome = "success") =>
        /\ \A k \in DOMAIN index' : index'[k].filename # op'.filename
        /\ \A k \in DOMAIN index' : \E j \in DOMAIN storage : storage[j] = index'[k]
        /\ \A j \in DOMAIN storage :
              Occurrences(index', storage[j]) =
                  IF storage[j].filename = op'.filename THEN 0
                  ELSE Occurrences(storage, storage[j])
        /\ storage' = index'
    ]_vars

RemoveKeepsOtherDocumentsWitness ==
    /\ op.kind = "remove"
    /\ op.found
    /\ op.outcome = "success"
    /\ index # <<>>
    /\ storage = index

\* The positions of a call in the steps of the last operation.
StepsAt(name, file) == {p \in DOMAIN op.steps : op.steps[p] = Step(name, file)}

\* C18: an upload makes, for each file it accepts, the index insert and then
\* the registry put of that file, saves the registry after the puts of all
\* files and persists the index last; it puts in the registry no file whose
\* index insert raised.  A Remove deletes the record and saves the registry
\* before it rebuilds and persists the index.
StepsInOrder ==
    /\ op.kind = "upload" =>
          /\ Len(op.steps) >= 2
          /\ op.steps[Len(op.steps) - 1] = Step("save", 0)
          /\ op.steps[Len(op.steps)] = Step("persist", 0)
          /\ StepsAt("save", 0) = {Len(op.steps) - 1}
          /\ StepsAt("persist", 0) = {Len(op.steps)}
          /\ \A i \in DOMAIN op.files :
                /\ op.files[i] = "accepted" =>
                      \E p \in DOMAIN op.steps :
                          /\ StepsAt("insert", i) = {p}
                          /\ StepsAt("put", i) = {p + 1}
                /\ op.files[i] # "accepted" => StepsAt("put", i) = {}
                /\ op.files[i] = "insert_error" =>
                      /\ StepsAt("insert_raised", i) # {}
                      /\ StepsAt("insert", i) = {}
    /\ (op.kind = "remove" /\ op.found) =>
          /\ StepsAt("delete", 0) = {1}
          /\ StepsAt("save", 0) = {2}
          /\ \A p \in StepsAt("rebuild", 0) \cup StepsAt("persist", 0) : p > 2
          /\ \A p \in StepsAt("rebuild", 0), q \in StepsAt("persist", 0) : p < q
          /\ op.fault \notin {"rebuild"} => StepsAt("persist", 0) # {}
          /\ StepsAt("rebuild", 0) # {}

StepsInOrderWitness ==
    /\ op.kind = "upload"
    /\ op.files = <<"insert_error", "accepted">>
    /\ Len(op.steps) = 5

\* C11: the query history never holds more than 50 entries, in the session
\* and in the history file and so in whatever a script run or a new session
\* loads from it; and a question answered while the history holds 50
\* entries drops the oldest one, keeps the others in their order and puts
\* the new entry last.
HistoryAtMostFifty ==
    /\ [](/\ Len(query_history) <= HistoryLimit
          /\ Len(history_file.data) <= HistoryLimit
          /\ Len(LoadQueryHistory(history_file, query_history)) <= HistoryLimit
          /\ Len(LoadQueryHistory(history_file, <<>>)) <= HistoryLimit)
    /\ [][(op'.kind = "ask" /\ op'.outcome = "answered") =>
            LET history == LoadQueryHistory(history_file, query_history)
                n == Len(history)
            IN  IF n < HistoryLimit
                THEN /\ Len(query_history') = n + 1
                     /\ SubSeq(query_history', 1, n) = history
                     /\ query_history'[n + 1].question = NextQuestion(history)
                ELSE /\ Len(query_history') = HistoryLimit
                     /\ \A k \in 1..(HistoryLimit - 1) :
                           query_history'[k] = history[k + 1]
                     /\ query_history'[HistoryLimit].question = NextQuestion(history)
                     /\ \A k \in 1..HistoryLimit : query_history'[k] # history[1]
         ]_vars

HistoryAtMostFiftyWitness ==
    /\ op.kind = "ask"
    /\ op.outcome = "answered"
    /\ Len(query_history) = HistoryLimit
    /\ query_history[1].question = 2
    /\ history_file = JsonHistory(query_history)

\* C14: a question section rendered while the registry is empty shows the
\* no-documents warning and returns: the query engine is not called, no
\* entry is appended to the history and the history file is not written.
NoQueryOnEmptyRegistry ==
    [][(/\ op'.kind = "ask"
        /\ LoadDocumentRegistry(registry_file, documents_registry) = EmptyRegistry)
        => /\ op'.outcome = "no_documents"
           /\ \A p \in DOMAIN op'.steps : op'.steps[p].name # "query"
           /\ query_history' = LoadQueryHistory(history_file, query_history)
           /\ history_file' = history_file
    ]_vars

NoQueryOnEmptyRegistryWitness ==
    /\ op.kind = "ask"
    /\ op.outcome = "no_documents"
    /\ documents_registry = EmptyRegistry
    /\ query_history # <<>>
    /\ storage # <<>>

\* The history as the history section lists it: newest first.
Shown(history) ==
    [k \in 1..Len(history) |-> history[Len(history) - k + 1]]

\* C19: the delete button of the entry shown at position idx of the history
\* list, newest first, removes exactly that entry: the list afterwards is
\* the list before without its position idx, the other entries unchanged
\* and in their order; and with no save failing the history file holds the
\* resulting history.
DeleteRemovesShownEntry ==
    [][op'.kind = "delete_history" =>
        LET history == LoadQueryHistory(history_file, query_history)
            n == Len(history)
            idx == op'.position
        IN  /\ idx \in 1..n
            /\ Len(query_history') = n - 1
            /\ \A k \in 1..(n - 1) :
                  Shown(query_history')[k] =
                      IF k < idx THEN Shown(history)[k] ELSE Shown(history)[k + 1]
            /\ op'.fault = "none" => history_file' = JsonHistory(query_history')
    ]_vars

DeleteRemovesShownEntryWitness ==
    /\ op.kind = "delete_history"
    /\ op.position = 2
    /\ op.fault = "none"
    /\ Len(query_history) = 2
    /\ query_history[1].question = 1
    /\ query_history[2].question = 3
    /\ history_file = JsonHistory(query_history)

====
